---- MODULE Spec2Model ----
(***************************************************************************)
(* A model of packages/nuxt-sidebase-parse/src/index.ts: the validation    *)
(* gate apiValidateWithSchema, the six extractors built on it and the      *)
(* parser factory makeParser.  Every call is a frame with its own          *)
(* parameters and locals; an async function suspends once, at its await.   *)
(***************************************************************************)
EXTENDS Integers, Sequences, FiniteSets, TLC

VARIABLES calls, validators, madeWith, usedOverride

vars == <<calls, validators, madeWith, usedOverride>>

\* Number of call frames that may be in flight at once.
MaxCalls == 2
\* Number of parsers makeParser may hand out.
MaxValidators == 1

Slots == 1..MaxCalls
ValidatorIds == 1..MaxValidators
\* A handler that awaits each call before the next one uses one frame.
SeqSlots == {1}

(***************************************************************************)
(* JavaScript values.                                                      *)
(***************************************************************************)
Undefined == [type |-> "undefined", n |-> 0, chars |-> <<>>]
Num(n) == [type |-> "number", n |-> n, chars |-> <<>>]
Str(cs) == [type |-> "string", n |-> 0, chars |-> cs]

\* An optional argument: <<>> when the caller leaves it out, <<x>> when x is passed.
Omitted == <<>>
Given(x) == <<x>>

\* The default of every errorCode parameter.
DefaultErrorCode == 422
BodyMessage == "Body validation failed"
QueryMessage == "Query validation failed"
DataMessage == "Data validation failed"

(***************************************************************************)
(* The schema engine (zod).  Two schemas stand for the caller's schemas:   *)
(* zNumberRange is the README's z.number().min(200).max(499), a pure       *)
(* validation; zNumericString is z.string().regex(/^\d+$/).transform(      *)
(* Number), a validation that also changes the value's representation.     *)
(***************************************************************************)
MinStatus == 200
MaxStatus == 499

Schemas == {"zNumberRange", "zNumericString"}

DigitChars == <<"0", "1", "2", "3", "4", "5", "6", "7", "8", "9">>
IsDigit(c) == \E k \in DOMAIN DigitChars : DigitChars[k] = c
DigitValue(c) == (CHOOSE k \in DOMAIN DigitChars : DigitChars[k] = c) - 1

RECURSIVE ToNumber(_)
ToNumber(cs) ==
  IF cs = <<>> THEN 0
  ELSE 10 * ToNumber(SubSeq(cs, 1, Len(cs) - 1)) + DigitValue(cs[Len(cs)])

NoIssue == [name |-> "undefined", issue |-> "", received |-> ""]
ZodError(issue, data) == [name |-> "ZodError", issue |-> issue, received |-> data.type]

ParseOk(v) == [ok |-> TRUE, value |-> v, error |-> NoIssue]
ParseFail(e) == [ok |-> FALSE, value |-> Undefined, error |-> e]

\* schema.parse(data): the parsed value, or the ZodError it throws.
SchemaParse(schema, data) ==
  IF schema = "zNumberRange"
  THEN IF data.type # "number" THEN ParseFail(ZodError("invalid_type", data))
       ELSE IF data.n < MinStatus THEN ParseFail(ZodError("too_small", data))
       ELSE IF data.n > MaxStatus THEN ParseFail(ZodError("too_big", data))
       ELSE ParseOk(data)
  ELSE IF data.type # "string" THEN ParseFail(ZodError("invalid_type", data))
       ELSE IF data.chars = <<>> \/ \E k \in DOMAIN data.chars : ~IsDigit(data.chars[k])
            THEN ParseFail(ZodError("invalid_string", data))
       ELSE ParseOk(Num(ToNumber(data.chars)))

(***************************************************************************)
(* Thrown values.                                                          *)
(***************************************************************************)
NoThrow == [name |-> "", statusCode |-> 0, statusMessage |-> "", data |-> NoIssue, cause |-> NoIssue]

\* The failure of an accessor: it has no status of its own.
SourceError(name) ==
  [name |-> name, statusCode |-> 0, statusMessage |-> "", data |-> NoIssue, cause |-> NoIssue]

\* The h3 error built from { statusCode, statusMessage, data }; no cause is passed.
createError(statusCode, statusMessage, data) ==
  [name |-> "H3Error", statusCode |-> statusCode, statusMessage |-> statusMessage,
   data |-> data, cause |-> NoIssue]

\* Variant: returns the input it was given instead of what schema.parse returned.
apiValidateReturnsInput(data, schema, statusCode, statusMessage) ==
  LET r == SchemaParse(schema, data)
  IN  IF r.ok
      THEN [threw |-> FALSE, value |-> data, error |-> NoThrow, parses |-> 1]
      ELSE [threw |-> TRUE, value |-> Undefined,
            error |-> createError(statusCode, statusMessage, r.error), parses |-> 1]

\* Variant: throws the default status whatever status it was called with.
apiValidateFixedStatus(data, schema, statusCode, statusMessage) ==
  LET r == SchemaParse(schema, data)
  IN  IF r.ok
      THEN [threw |-> FALSE, value |-> r.value, error |-> NoThrow, parses |-> 1]
      ELSE [threw |-> TRUE, value |-> Undefined,
            error |-> createError(DefaultErrorCode, DataMessage, r.error), parses |-> 1]

\* Variant: throws createError({ statusCode, statusMessage }) and loses the ZodError.
apiValidateDropsDetail(data, schema, statusCode, statusMessage) ==
  LET r == SchemaParse(schema, data)
  IN  IF r.ok
      THEN [threw |-> FALSE, value |-> r.value, error |-> NoThrow, parses |-> 1]
      ELSE [threw |-> TRUE, value |-> Undefined,
            error |-> createError(statusCode, statusMessage, NoIssue), parses |-> 1]

\* Variant: parses a second time in the catch block before giving up.
apiValidateRetries(data, schema, statusCode, statusMessage) ==
  LET r == SchemaParse(schema, data)
  IN  IF r.ok
      THEN [threw |-> FALSE, value |-> r.value, error |-> NoThrow, parses |-> 1]
      ELSE LET again == SchemaParse(schema, data)
           IN  IF again.ok
               THEN [threw |-> FALSE, value |-> again.value, error |-> NoThrow, parses |-> 2]
               ELSE [threw |-> TRUE, value |-> Undefined,
                     error |-> createError(statusCode, statusMessage, again.error), parses |-> 2]

\* try { return schema.parse(data) } catch (error) { throw createError(...) }
apiValidateWithSchema(data, schema, statusCode, statusMessage) ==
  LET r == SchemaParse(schema, data)
  IN  IF r.ok
      THEN [threw |-> FALSE, value |-> r.value, error |-> NoThrow, parses |-> 1]
      ELSE [threw |-> TRUE, value |-> Undefined,
            error |-> createError(statusCode, statusMessage, r.error), parses |-> 1]

(***************************************************************************)
(* Parameters.                                                             *)
(***************************************************************************)
\* A parameter with a default (errorCode = 422): the default applies when the
\* argument is undefined.
ParamOr(arg, default) == IF arg = Omitted THEN default ELSE arg[1]

\* Variant: errorCode || errorCodeOverwrite, the operands the wrong way round.
CodeOrBoundFirst(overwrite, errorCode) ==
  IF errorCode # 0 \/ overwrite = Omitted THEN errorCode ELSE overwrite[1]

\* errorCodeOverwrite || errorCode
CodeOr(overwrite, errorCode) ==
  IF overwrite = Omitted \/ overwrite[1] = 0 THEN errorCode ELSE overwrite[1]

\* errorMessageOverwrite || errorMessage
MessageOr(overwrite, errorMessage) ==
  IF overwrite = Omitted \/ overwrite[1] = "" THEN errorMessage ELSE overwrite[1]

(***************************************************************************)
(* What an accessor or an awaited promise yields.                         *)
(***************************************************************************)
SourceOk(v) == [ok |-> TRUE, value |-> v, error |-> NoThrow]
SourceFail(e) == [ok |-> FALSE, value |-> Undefined, error |-> e]
Unsettled == [ok |-> FALSE, value |-> Undefined, error |-> NoThrow]

RawValues ==
  {Num(400), Num(100), Str(<<"4", "0", "0">>), Str(<<"a", "b", "c">>), Undefined}
SourceResults ==
  {SourceOk(v) : v \in RawValues} \cup {SourceFail(SourceError("SyntaxError"))}

\* The arguments a caller passes for errorCode and errorMessage.
ErrorCodeArgs == {Omitted, Given(500)}
ErrorMessageArgs == {Omitted, Given("Y")}
\* The arguments makeParser is given.
BoundCodeArgs == {Omitted, Given(400)}
BoundMessageArgs == {Omitted, Given("X")}
\* The overwrites a parser may be called with.
OverwriteCodeArgs == {Omitted, Given(0), Given(500)}
OverwriteMessageArgs == {Omitted, Given(""), Given("Y")}

(***************************************************************************)
(* Functions and frames.                                                   *)
(***************************************************************************)
AsyncExtractors == {"parseBodyAs", "parseDataAs"}
SyncExtractors == {"parseParamsAs", "parseQueryAs", "parseCookieAs", "parseHeaderAs"}
Extractors == AsyncExtractors \cup SyncExtractors

\* Declared async: the call returns a promise and settles it.
IsAsync(fn) == fn \in AsyncExtractors \cup {"parser"}

\* The default of the errorMessage parameter of each extractor.
DefaultMessage(fn) ==
  IF fn = "parseBodyAs" THEN BodyMessage
  ELSE IF fn = "parseDataAs" THEN DataMessage
  ELSE QueryMessage

NoOutcome == [kind |-> "none", value |-> Undefined, error |-> NoThrow]

IdleFrame ==
  [fn |-> "", pc |-> "idle", validator |-> 0, schema |-> "",
   argCode |-> Omitted, argMsg |-> Omitted, errorCode |-> 0, errorMessage |-> "",
   source |-> Unsettled, parses |-> 0, outcome |-> NoOutcome, interleaved |-> FALSE]

NoValidator == [made |-> FALSE, schema |-> "", errorCode |-> 0, errorMessage |-> ""]

\* The closure makeParser returns: schema, errorCode and errorMessage it captures.
makeParser(schema, errorCode, errorMessage) ==
  [made |-> TRUE, schema |-> schema,
   errorCode |-> ParamOr(errorCode, DefaultErrorCode),
   errorMessage |-> ParamOr(errorMessage, DataMessage)]

\* Variant: the call assigns its overwrites to the captured variables.
BoundKeepsOverwrite(bound, overwriteCode, overwriteMsg) ==
  [bound EXCEPT !.errorCode = CodeOr(overwriteCode, @),
                !.errorMessage = MessageOr(overwriteMsg, @)]

\* The captured variables after a call of the parser: the call assigns none.
BoundAfterCall(bound, overwriteCode, overwriteMsg) == bound

\* Variant: `data` is one module-level variable, so a continuation may read
\* what the await of another call in flight left there.
AwaitedResultShared(cs, i) ==
  LET ready == {j \in DOMAIN cs : cs[j].pc = "ready"}
  IN  IF ready = {} THEN cs[i].source ELSE cs[CHOOSE j \in ready : TRUE].source

\* The value the frame's own await (or accessor) yields into its local `data`.
AwaitedResult(cs, i) == cs[i].source

\* Variant: the extraction sits inside the try block, so its failure is
\* rethrown as the adapter's error.
extractInsideTry(src, schema, statusCode, statusMessage) ==
  IF src.ok
  THEN apiValidateWithSchema(src.value, schema, statusCode, statusMessage)
  ELSE [threw |-> TRUE, value |-> Undefined,
        error |-> createError(statusCode, statusMessage, NoIssue), parses |-> 0]

\* const data = <extract>; return apiValidateWithSchema(data, ...): a failed
\* extraction leaves the function before the gate is called.
extractThenValidate(src, schema, statusCode, statusMessage) ==
  IF src.ok
  THEN apiValidateWithSchema(src.value, schema, statusCode, statusMessage)
  ELSE [threw |-> TRUE, value |-> Undefined, error |-> src.error, parses |-> 0]

\* How the end of the function body reaches the caller.
Delivery(fn, r) ==
  IF IsAsync(fn)
  THEN [kind |-> IF r.threw THEN "rejected" ELSE "resolved", value |-> r.value, error |-> r.error]
  ELSE [kind |-> IF r.threw THEN "thrown" ELSE "returned", value |-> r.value, error |-> r.error]

(***************************************************************************)
(* Init and the actions.                                                   *)
(***************************************************************************)
Init ==
  /\ calls = [i \in Slots |-> IdleFrame]
  /\ validators = [v \in ValidatorIds |-> NoValidator]
  /\ madeWith = [v \in ValidatorIds |-> NoValidator]
  /\ usedOverride = [v \in ValidatorIds |-> FALSE]

\* const parser = makeParser(schema, errorCode?, errorMessage?)
MakeParser(v, schema, errorCode, errorMessage) ==
  /\ ~validators[v].made
  /\ validators' = [validators EXCEPT ![v] = makeParser(schema, errorCode, errorMessage)]
  /\ madeWith' = [madeWith EXCEPT ![v] = makeParser(schema, errorCode, errorMessage)]
  /\ UNCHANGED <<calls, usedOverride>>

\* An async extractor runs to its await: parseBodyAs to `await readBody(event)`,
\* parseDataAs to `await dataOrPromise`.
CallAsyncExtractor(i, fn, schema, errorCode, errorMessage) ==
  /\ calls[i].pc = "idle"
  /\ calls' = [calls EXCEPT ![i] =
       [IdleFrame EXCEPT !.fn = fn, !.pc = "awaiting", !.schema = schema,
          !.argCode = errorCode, !.argMsg = errorMessage,
          !.errorCode = ParamOr(errorCode, DefaultErrorCode),
          !.errorMessage = ParamOr(errorMessage, DefaultMessage(fn))]]
  /\ UNCHANGED <<validators, madeWith, usedOverride>>

ParseBodyAs(i, schema, errorCode, errorMessage) ==
  CallAsyncExtractor(i, "parseBodyAs", schema, errorCode, errorMessage)

ParseDataAs(i, schema, errorCode, errorMessage) ==
  CallAsyncExtractor(i, "parseDataAs", schema, errorCode, errorMessage)

\* A parser runs to `await data`.
CallParser(i, v, errorCodeOverwrite, errorMessageOverwrite) ==
  /\ calls[i].pc = "idle"
  /\ validators[v].made
  /\ calls' = [calls EXCEPT ![i] =
       [IdleFrame EXCEPT !.fn = "parser", !.pc = "awaiting", !.validator = v,
          !.schema = validators[v].schema,
          !.argCode = errorCodeOverwrite, !.argMsg = errorMessageOverwrite]]
  /\ UNCHANGED <<validators, madeWith, usedOverride>>

\* The awaited promise settles: the body was read (or the read failed), the
\* promise passed in fulfilled or rejected.
Settle(i, result) ==
  /\ calls[i].pc = "awaiting"
  /\ calls' = [calls EXCEPT ![i].pc = "ready", ![i].source = result]
  /\ UNCHANGED <<validators, madeWith, usedOverride>>

\* Whether another call is suspended at its await while call i continues.
OthersInFlight(cs, i) == \E j \in DOMAIN cs : j # i /\ cs[j].pc \in {"awaiting", "ready"}

\* The continuation of an async extractor: the rest of the body after the await.
ResumeExtractor(i) ==
  /\ calls[i].pc = "ready"
  /\ calls[i].fn \in AsyncExtractors
  /\ LET f == calls[i]
         r == extractThenValidate(AwaitedResult(calls, i), f.schema, f.errorCode, f.errorMessage)
     IN  calls' = [calls EXCEPT ![i].pc = "done", ![i].parses = f.parses + r.parses,
                                ![i].outcome = Delivery(f.fn, r),
                                ![i].interleaved = OthersInFlight(calls, i)]
  /\ UNCHANGED <<validators, madeWith, usedOverride>>

\* The continuation of a parser: the overwrites are resolved against the
\* captured defaults, then the gate is called.
ResumeParser(i) ==
  /\ calls[i].pc = "ready"
  /\ calls[i].fn = "parser"
  /\ LET f == calls[i]
         b == validators[f.validator]
         code == CodeOr(f.argCode, b.errorCode)
         msg == MessageOr(f.argMsg, b.errorMessage)
         r == extractThenValidate(AwaitedResult(calls, i), b.schema, code, msg)
     IN  /\ calls' = [calls EXCEPT ![i].pc = "done", ![i].parses = f.parses + r.parses,
                                   ![i].errorCode = code, ![i].errorMessage = msg,
                                   ![i].outcome = Delivery(f.fn, r),
                                   ![i].interleaved = OthersInFlight(calls, i)]
         /\ validators' = [validators EXCEPT ![f.validator] = BoundAfterCall(b, f.argCode, f.argMsg)]
         /\ usedOverride' = [usedOverride EXCEPT ![f.validator] =
                               @ \/ f.argCode # Omitted \/ f.argMsg # Omitted]
  /\ UNCHANGED madeWith

\* A synchronous extractor: accessor and gate run in one piece.
CallSyncExtractor(i, fn, src, schema, errorCode, errorMessage) ==
  /\ calls[i].pc = "idle"
  /\ LET code == ParamOr(errorCode, DefaultErrorCode)
         msg == ParamOr(errorMessage, DefaultMessage(fn))
         started == [calls EXCEPT ![i] =
                       [IdleFrame EXCEPT !.fn = fn, !.schema = schema, !.source = src,
                          !.argCode = errorCode, !.argMsg = errorMessage,
                          !.errorCode = code, !.errorMessage = msg]]
         r == extractThenValidate(AwaitedResult(started, i), schema, code, msg)
     IN  calls' = [started EXCEPT ![i].pc = "done", ![i].parses = r.parses,
                                  ![i].outcome = Delivery(fn, r)]
  /\ UNCHANGED <<validators, madeWith, usedOverride>>

ParseParamsAs(i, src, schema, errorCode, errorMessage) ==
  CallSyncExtractor(i, "parseParamsAs", src, schema, errorCode, errorMessage)

ParseQueryAs(i, src, schema, errorCode, errorMessage) ==
  CallSyncExtractor(i, "parseQueryAs", src, schema, errorCode, errorMessage)

ParseCookieAs(i, src, schema, errorCode, errorMessage) ==
  CallSyncExtractor(i, "parseCookieAs", src, schema, errorCode, errorMessage)

ParseHeaderAs(i, src, schema, errorCode, errorMessage) ==
  CallSyncExtractor(i, "parseHeaderAs", src, schema, errorCode, errorMessage)

\* The caller has taken the result; the frame is gone.
Return(i) ==
  /\ calls[i].pc = "done"
  /\ calls' = [calls EXCEPT ![i] = IdleFrame]
  /\ UNCHANGED <<validators, madeWith, usedOverride>>

Next ==
  \/ \E v \in ValidatorIds, s \in Schemas, c \in BoundCodeArgs, m \in BoundMessageArgs :
       MakeParser(v, s, c, m)
  \/ \E i \in SeqSlots, s \in Schemas, c \in ErrorCodeArgs, m \in ErrorMessageArgs :
       ParseBodyAs(i, s, c, m)
  \/ \E i \in SeqSlots, s \in Schemas, c \in ErrorCodeArgs, m \in ErrorMessageArgs :
       ParseDataAs(i, s, c, m)
  \/ \E i \in SeqSlots, v \in ValidatorIds, c \in OverwriteCodeArgs, m \in OverwriteMessageArgs :
       CallParser(i, v, c, m)
  \/ \E i \in SeqSlots, r \in SourceResults : Settle(i, r)
  \/ \E i \in SeqSlots : ResumeExtractor(i)
  \/ \E i \in SeqSlots : ResumeParser(i)
  \/ \E i \in SeqSlots, r \in SourceResults, s \in Schemas, c \in ErrorCodeArgs, m \in ErrorMessageArgs :
       ParseParamsAs(i, r, s, c, m)
  \/ \E i \in SeqSlots, r \in SourceResults, s \in Schemas, c \in ErrorCodeArgs, m \in ErrorMessageArgs :
       ParseQueryAs(i, r, s, c, m)
  \/ \E i \in SeqSlots, r \in SourceResults, s \in Schemas, c \in ErrorCodeArgs, m \in ErrorMessageArgs :
       ParseCookieAs(i, r, s, c, m)
  \/ \E i \in SeqSlots, r \in SourceResults, s \in Schemas, c \in ErrorCodeArgs, m \in ErrorMessageArgs :
       ParseHeaderAs(i, r, s, c, m)
  \/ \E i \in SeqSlots : Return(i)

Spec == Init /\ [][Next]_vars

(***************************************************************************)
(* Concurrent callers: several calls of the async functions in flight at   *)
(* once, their awaits settling and their continuations running in any      *)
(* order.  The parsers exist from the start, each made as the README makes *)
(* its transform: makeParser(z.number().min(200).max(499)).  The           *)
(* synchronous extractors never suspend, so they have no part in an        *)
(* interleaving.                                                           *)
(***************************************************************************)
ConcResults ==
  {SourceOk(Num(400)), SourceOk(Str(<<"4", "0", "0">>)), SourceFail(SourceError("SyntaxError"))}

\* The callers here leave errorCode and errorMessage to the defaults, and
\* overwrite at most the code of a parser.
ConcCodeArgs == {Omitted}
ConcMessageArgs == {Omitted}
ConcOverwriteCodeArgs == {Omitted, Given(500)}
ConcOverwriteMessageArgs == {Omitted}

InitConc ==
  /\ calls = [i \in Slots |-> IdleFrame]
  /\ validators = [v \in ValidatorIds |-> makeParser("zNumberRange", Omitted, Omitted)]
  /\ madeWith = validators
  /\ usedOverride = [v \in ValidatorIds |-> FALSE]

NextConc ==
  \/ \E i \in Slots, s \in Schemas, c \in ConcCodeArgs, m \in ConcMessageArgs :
       ParseBodyAs(i, s, c, m)
  \/ \E i \in Slots, s \in Schemas, c \in ConcCodeArgs, m \in ConcMessageArgs :
       ParseDataAs(i, s, c, m)
  \/ \E i \in Slots, v \in ValidatorIds, c \in ConcOverwriteCodeArgs, m \in ConcOverwriteMessageArgs :
       CallParser(i, v, c, m)
  \/ \E i \in Slots, r \in ConcResults : Settle(i, r)
  \/ \E i \in Slots : ResumeExtractor(i)
  \/ \E i \in Slots : ResumeParser(i)
  \/ \E i \in Slots : Return(i)

SpecConc == InitConc /\ [][NextConc]_vars

(***************************************************************************)
(* Properties.                                                             *)
(***************************************************************************)
Done(f) == f.pc = "done"
Raised(f) == f.outcome.kind \in {"rejected", "thrown"}
Delivered(f) == f.outcome.kind \in {"resolved", "returned"}
\* What the schema engine itself says of the value the call extracted.
Verdict(f) == SchemaParse(f.schema, f.source.value)
ValidationSucceeds(f) == Done(f) /\ f.source.ok /\ Verdict(f).ok
ValidationFails(f) == Done(f) /\ f.source.ok /\ ~Verdict(f).ok
ExtractionFails(f) == Done(f) /\ ~f.source.ok
Coerced400 == Num(400)

\* C1: whenever the schema accepts the extracted value, the call ends without
\* an error and hands back exactly the value the schema engine produced, the
\* coerced value included.
C1_SuccessIsSchemaValue ==
  \A i \in Slots :
    ValidationSucceeds(calls[i]) =>
      /\ Delivered(calls[i])
      /\ calls[i].outcome.value = Verdict(calls[i]).value
      /\ calls[i].outcome.error = NoThrow

\* A call whose schema turned the string "400" into the number 400 has ended.
C1_Witness ==
  \E i \in Slots :
    /\ ValidationSucceeds(calls[i])
    /\ calls[i].source.value.type = "string"
    /\ calls[i].outcome.value = Coerced400

\* C2: whenever the schema rejects the extracted value, the call hands back no
\* value and raises an error whose statusCode and statusMessage are the ones
\* the gate was called with; for an extractor given both explicitly, those
\* are the caller's.
C2_FailureCarriesSuppliedStatus ==
  \A i \in Slots :
    ValidationFails(calls[i]) =>
      /\ Raised(calls[i])
      /\ calls[i].outcome.value = Undefined
      /\ calls[i].outcome.error.statusCode = calls[i].errorCode
      /\ calls[i].outcome.error.statusMessage = calls[i].errorMessage
      /\ (calls[i].fn \in Extractors /\ calls[i].argCode # Omitted) =>
           calls[i].outcome.error.statusCode = calls[i].argCode[1]
      /\ (calls[i].fn \in Extractors /\ calls[i].argMsg # Omitted) =>
           calls[i].outcome.error.statusMessage = calls[i].argMsg[1]

\* An extractor called with 500 and "Y" has failed validation with that status.
C2_Witness ==
  \E i \in Slots :
    /\ ValidationFails(calls[i])
    /\ calls[i].fn \in Extractors
    /\ calls[i].argCode = Given(500)
    /\ calls[i].argMsg = Given("Y")
    /\ calls[i].outcome.error.statusCode = 500
    /\ calls[i].outcome.error.statusMessage = "Y"

\* C3 as stated: whenever validation fails, the raised error has a field named
\* cause holding the schema engine's failure object.
C3_CauseIsFailure ==
  \A i \in Slots :
    ValidationFails(calls[i]) =>
      /\ Raised(calls[i])
      /\ calls[i].outcome.error.cause = Verdict(calls[i]).error

\* C3 (amended): whenever validation fails, the raised error carries, beside
\* statusCode and statusMessage, a field named data holding the schema
\* engine's own failure object.
C3_DataIsFailure ==
  \A i \in Slots :
    ValidationFails(calls[i]) =>
      /\ Raised(calls[i])
      /\ calls[i].outcome.error.name = "H3Error"
      /\ calls[i].outcome.error.data = Verdict(calls[i]).error
      /\ calls[i].outcome.error.data # NoIssue

\* A failed validation has raised an error whose data is a ZodError.
C3_Witness ==
  \E i \in Slots :
    /\ ValidationFails(calls[i])
    /\ calls[i].outcome.error.data.name = "ZodError"
    /\ calls[i].outcome.error.data.issue = "invalid_string"

\* The parser of call f was made without explicit defaults.
MadeWithoutDefaults(f) ==
  f.fn = "parser" => madeWith[f.validator] = makeParser(f.schema, Omitted, Omitted)

\* C4: every extractor, and every parser made without explicit defaults, that
\* is called without status code and message and fails validation raises
\* statusCode 422 and statusMessage "Data validation failed".
C4_DefaultStatus ==
  \A i \in Slots :
    (/\ ValidationFails(calls[i])
     /\ calls[i].argCode = Omitted
     /\ calls[i].argMsg = Omitted
     /\ MadeWithoutDefaults(calls[i])) =>
      /\ calls[i].outcome.error.statusCode = DefaultErrorCode
      /\ calls[i].outcome.error.statusMessage = DataMessage

ParserFails(f) == ValidationFails(f) /\ f.fn = "parser"

\* C5 as stated: a failing call of a parser raises every overwrite it was
\* given in place of the bound default, and the bound default only for a
\* field whose overwrite is left out.
C5_OverwriteAlwaysWins ==
  \A i \in Slots :
    ParserFails(calls[i]) =>
      LET f == calls[i]
          b == madeWith[f.validator]
      IN  /\ f.outcome.error.statusCode = IF f.argCode = Omitted THEN b.errorCode ELSE f.argCode[1]
          /\ f.outcome.error.statusMessage = IF f.argMsg = Omitted THEN b.errorMessage ELSE f.argMsg[1]

\* C5 (amended): a failing call of a parser raises an overwrite that is truthy
\* (a code other than 0, a message other than "") in place of the bound
\* default; for a field whose overwrite is left out or falsy it raises the
\* bound default.
C5_TruthyOverwriteWins ==
  \A i \in Slots :
    ParserFails(calls[i]) =>
      LET f == calls[i]
          b == madeWith[f.validator]
      IN  /\ f.outcome.error.statusCode =
               IF f.argCode = Omitted \/ f.argCode = Given(0) THEN b.errorCode ELSE f.argCode[1]
          /\ f.outcome.error.statusMessage =
               IF f.argMsg = Omitted \/ f.argMsg = Given("") THEN b.errorMessage ELSE f.argMsg[1]

\* A parser bound to 400 and "X" has failed with the overwrites 500 and "Y".
C5_Witness ==
  \E i \in Slots :
    /\ ParserFails(calls[i])
    /\ madeWith[calls[i].validator].errorCode = 400
    /\ madeWith[calls[i].validator].errorMessage = "X"
    /\ calls[i].argCode = Given(500)
    /\ calls[i].argMsg = Given("Y")
    /\ calls[i].outcome.error.statusCode = 500
    /\ calls[i].outcome.error.statusMessage = "Y"

\* C6: when the extraction itself fails, the caller gets exactly that failure:
\* not an adapter error, no status from the adapter, and the schema is not
\* applied in that call.
C6_ExtractionFailurePropagates ==
  \A i \in Slots :
    ExtractionFails(calls[i]) =>
      /\ Raised(calls[i])
      /\ calls[i].outcome.error = calls[i].source.error
      /\ calls[i].outcome.error.name # "H3Error"
      /\ calls[i].outcome.error.statusCode = 0
      /\ calls[i].outcome.error.statusMessage = ""
      /\ calls[i].parses = 0

\* parseBodyAs has ended with the SyntaxError of its body read.
C6_Witness ==
  \E i \in Slots :
    /\ ExtractionFails(calls[i])
    /\ calls[i].fn = "parseBodyAs"
    /\ calls[i].outcome.kind = "rejected"
    /\ calls[i].outcome.error.name = "SyntaxError"

\* C7: the overwrites of a call stay in that call: whatever calls a parser has
\* served, it still holds the schema and the defaults makeParser bound, and a
\* failing call without overwrites raises those defaults.
C7_OverwritesAreCallScoped ==
  /\ \A v \in ValidatorIds : validators[v] = madeWith[v]
  /\ \A i \in Slots :
       (ParserFails(calls[i]) /\ calls[i].argCode = Omitted /\ calls[i].argMsg = Omitted) =>
         /\ calls[i].outcome.error.statusCode = madeWith[calls[i].validator].errorCode
         /\ calls[i].outcome.error.statusMessage = madeWith[calls[i].validator].errorMessage
         /\ calls[i].schema = madeWith[calls[i].validator].schema

\* A parser bound to 400 and "X" that has served a call with overwrites has
\* then failed a call without them.
C7_Witness ==
  \E i \in Slots :
    /\ ParserFails(calls[i])
    /\ calls[i].argCode = Omitted
    /\ calls[i].argMsg = Omitted
    /\ usedOverride[calls[i].validator]
    /\ madeWith[calls[i].validator].errorCode = 400
    /\ madeWith[calls[i].validator].errorMessage = "X"
    /\ calls[i].outcome.error.statusCode = 400

\* C8: every extractor answers through a promise: a success is its
\* resolution, a validation failure its rejection, never a value returned or
\* an exception thrown out of the call itself.
C8_ExtractorsSettleAPromise ==
  \A i \in Slots :
    (Done(calls[i]) /\ calls[i].fn \in Extractors /\ calls[i].source.ok) =>
      calls[i].outcome.kind \in {"resolved", "rejected"}

\* C9: in every call the schema is applied at most once, only once the
\* extraction has completed, and not again after a failure: the call ends
\* with the first application's value or with the adapter error built from
\* its failure.
C9_SchemaAppliedOnce ==
  \A i \in Slots :
    LET f == calls[i]
    IN  /\ f.parses <= 1
        /\ f.parses = 1 => Done(f) /\ f.source.ok
        /\ ~Done(f) => f.parses = 0
        /\ ValidationSucceeds(f) => f.parses = 1 /\ f.outcome.value = Verdict(f).value
        /\ ValidationFails(f) =>
             /\ f.parses = 1
             /\ f.outcome.error = createError(f.errorCode, f.errorMessage, Verdict(f).error)

\* A call has ended in the adapter error after its one application failed.
C9_Witness ==
  \E i \in Slots :
    /\ ValidationFails(calls[i])
    /\ calls[i].parses = 1
    /\ calls[i].outcome.error.name = "H3Error"

\* The outcome call f has when it runs alone on its own inputs.
AloneOutcome(f) ==
  LET b == madeWith[f.validator]
      code == IF f.fn = "parser" THEN CodeOr(f.argCode, b.errorCode)
              ELSE ParamOr(f.argCode, DefaultErrorCode)
      msg == IF f.fn = "parser" THEN MessageOr(f.argMsg, b.errorMessage)
             ELSE ParamOr(f.argMsg, DefaultMessage(f.fn))
      schema == IF f.fn = "parser" THEN b.schema ELSE f.schema
  IN  Delivery(f.fn, extractThenValidate(f.source, schema, code, msg))

\* C10: calls in flight together do not touch each other: however their
\* awaits and continuations interleave, each call ends with the outcome it
\* has when run alone on its own inputs.
C10_CallsAreIndependent ==
  \A i \in Slots : Done(calls[i]) => calls[i].outcome = AloneOutcome(calls[i])

\* Two calls that were in flight together have ended differently: one
\* resolved, the other rejected with the adapter error.
C10_Witness ==
  \E i, j \in Slots :
    /\ i # j
    /\ Done(calls[i]) /\ Done(calls[j])
    /\ calls[i].interleaved
    /\ calls[i].source # calls[j].source
    /\ calls[i].outcome.kind = "resolved"
    /\ calls[j].outcome.kind = "rejected"
    /\ calls[j].outcome.error.name = "H3Error"

====
